---- MODULE Spec2Model ----
(***************************************************************************)
(* Model of the mock-your-api interception pipeline:                       *)
(*   src/src/content/injected.js       the in-page shim and the emulator   *)
(*   src/src/content/interceptor.js    the content-script relay            *)
(*   src/src/background/service-worker.js  the rule authority              *)
(***************************************************************************)
EXTENDS Integers, Sequences, FiniteSets, TLC

\* ------------------------------------------------------------------ bounds
\* Number of fetch / XHR calls a page makes in one behaviour.
MaxCalls == 2
\* Number of ADD_RULE messages handled in one behaviour.
MaxRules == 2
\* Number of MOCK_RESPONSE messages posted a second time in one behaviour.
MaxDup == 1
\* rule mutation requests the service worker gets in one behaviour
MaxMutations == 3

\* --------------------------------------------------------------- strings
\* HTTP methods are sequences of characters, so that toUpperCase() is computed.
UpperChar(ch) ==
  CASE ch = "g" -> "G" [] ch = "e" -> "E" [] ch = "t" -> "T"
    [] ch = "p" -> "P" [] ch = "o" -> "O" [] ch = "s" -> "S"
    [] OTHER -> ch

\* String.prototype.toUpperCase
ToUpperCase(s) == [i \in 1..Len(s) |-> UpperChar(s[i])]

mGET == <<"G", "E", "T">>
mGet == <<"g", "e", "t">>
mPOST == <<"P", "O", "S", "T">>
mPost == <<"p", "o", "s", "t">>

\* An optional value (a JavaScript value that may be undefined) is a sequence
\* of length 0 or 1.
None == <<>>
Some(v) == <<v>>
\* x || d for an optional x
OrElse(x, d) == IF x = None THEN d ELSE x[1]

\* window.location.origin of the page
Origin == "https://a"
Malformed == "http://["
UrlInputs == {"/b", "https://a/b?x=1", Malformed}

\* new URL(url, window.location.origin).href : None when the constructor throws
UrlHref(url) ==
  IF url = Malformed THEN None
  ELSE IF url \in {"/b", "/c"} THEN Some(Origin \o url)
  ELSE Some(url)

\* try { url = new URL(url, origin).href } catch (e) { keep the original }
NormalizeUrl(url) == Some(OrElse(UrlHref(url), url))

\* ------------------------------------------------------ response payloads
\* Response payloads a rule can store. Headers are an ordered list of
\* <<name, value>> pairs.
R201 == [status |-> 201, statusText |-> "Created",
         headers |-> << <<"Content-Type", "application/json">> >>, body |-> "{id:1}"]
R204 == [status |-> 204, statusText |-> "No Content", headers |-> <<>>, body |-> ""]

\* -------------------------------------------------------------- variables
VARIABLES
  rules,            \* chrome.storage.local[mockRules]: a sequence of rules
  globalEnabled,    \* chrome.storage.local[globalEnabled]
  ruleIds,          \* number of rule ids generateId() has handed out
  requestCounter,   \* injected.js requestCounter
  pendingRequests,  \* injected.js pendingRequests: requestId -> call that awaits it
  msgs,             \* the queries on their way: CHECK_MOCK, the relay, the authority, MOCK_RESPONSE
  calls,            \* the page's calls of fetch / XMLHttpRequest
  dups,             \* number of MOCK_RESPONSE messages posted a second time
  late,             \* number of MOCK_RESPONSE messages that found no pending entry
  mutations         \* the rule mutation handlers between their storage read and write

vars == <<rules, globalEnabled, ruleIds, requestCounter, pendingRequests, msgs, calls,
          dups, late, mutations>>

CallIds == 1..MaxCalls

\* ---------------------------------------------------------- rule authority
\* RuleMatches without the test of rule.enabled
RuleMatchesDisabledToo(rule, url, method) ==
  rule.url = url /\ ToUpperCase(rule.method) = ToUpperCase(method)

\* RuleMatches with a url test that lets a query string pass
RuleMatchesUrlPrefix(rule, url, method) ==
  /\ rule.enabled
  /\ url \in {rule.url, rule.url \o "?x=1"}
  /\ ToUpperCase(rule.method) = ToUpperCase(method)

\* checkMock's predicate of rules.find (service-worker.js 224-234)
RuleMatches(rule, url, method) ==
  IF ~rule.enabled THEN FALSE
  ELSE LET urlMatch == rule.url = url
           methodMatch == ToUpperCase(rule.method) = ToUpperCase(method)
       IN urlMatch /\ methodMatch

\* A find that takes the last element that satisfies the predicate
FindRuleLast(rs, url, method) ==
  LET hits == {i \in 1..Len(rs) : RuleMatches(rs[i], url, method)}
  IN IF hits = {} THEN None
     ELSE Some(rs[CHOOSE i \in hits : \A j \in hits : i >= j])

\* Array.prototype.find: the first element, in order, that satisfies the predicate
FindRule(rs, url, method) ==
  LET hits == {i \in 1..Len(rs) : RuleMatches(rs[i], url, method)}
  IN IF hits = {} THEN None
     ELSE Some(rs[CHOOSE i \in hits : \A j \in hits : i <= j])

\* The decisions that travel back to the shim.
NoPayload == [shouldMock |-> None, response |-> None, error |-> FALSE, ruleId |-> 0]
\* A shouldMock:false that still carries a response
ShouldNotMockWithResponse ==
  [shouldMock |-> Some(FALSE), response |-> Some(R201), error |-> FALSE, ruleId |-> 0]
\* { shouldMock: false }
ShouldNotMock == [shouldMock |-> Some(FALSE), response |-> None, error |-> FALSE, ruleId |-> 0]
\* { shouldMock: true, response: matchingRule.response, ruleId: matchingRule.id }
ShouldMock(rule) ==
  [shouldMock |-> Some(TRUE), response |-> Some(rule.response), error |-> FALSE,
   ruleId |-> rule.id]
\* sendResponse({ error: error.message }) of the onMessage listener's catch
HandlerError == [shouldMock |-> None, response |-> None, error |-> TRUE, ruleId |-> 0]
\* { shouldMock: false, error: error.message } of the relay's catch
RelayFailure == [shouldMock |-> Some(FALSE), response |-> None, error |-> TRUE, ruleId |-> 0]

\* checkMock after both storage reads (service-worker.js 236-244)
CheckMockResult(rs, url, method) ==
  LET matchingRule == FindRule(rs, url, method)
  IN IF matchingRule # None THEN ShouldMock(matchingRule[1]) ELSE ShouldNotMock

\* generateId(): a new id for every rule
GenerateId == ruleIds + 1

\* The request and response parts of the rules the panel sends
RuleData ==
  {[url |-> "https://a/b", method |-> mGET, response |-> R201],
   [url |-> "https://a/b", method |-> mGET, response |-> R204],
   [url |-> "https://a/b", method |-> mPost, response |-> R201]}

\* addRule (service-worker.js 90-120)
AddRule(data) ==
  /\ ruleIds < MaxRules
  /\ rules' = Append(rules, [id |-> GenerateId, enabled |-> TRUE, url |-> data.url,
                             method |-> data.method, response |-> data.response])
  /\ ruleIds' = ruleIds + 1
  /\ UNCHANGED <<globalEnabled, requestCounter, pendingRequests, msgs, calls, dups, late, mutations>>

\* updateRule (service-worker.js 125-146), for an id that is stored
UpdateRule(i, data) ==
  /\ i \in 1..Len(rules)
  /\ rules' = [rules EXCEPT ![i] = [id |-> rules[i].id, enabled |-> rules[i].enabled,
                                    url |-> data.url, method |-> data.method,
                                    response |-> data.response]]
  /\ UNCHANGED <<globalEnabled, ruleIds, requestCounter, pendingRequests, msgs, calls, dups, late, mutations>>

\* deleteRule (service-worker.js 151-167), for an id that is stored
DeleteRule(i) ==
  /\ i \in 1..Len(rules)
  /\ rules' = SelectSeq(rules, LAMBDA r : r.id # rules[i].id)
  /\ UNCHANGED <<globalEnabled, ruleIds, requestCounter, pendingRequests, msgs, calls, dups, late, mutations>>

\* rule.enabled = !rule.enabled on the rule found (service-worker.js 176-181)
Toggled(rs, i) == [rs EXCEPT ![i].enabled = ~rs[i].enabled]

\* toggleRule (service-worker.js 172-188), for an id that is stored
ToggleRule(i) ==
  /\ i \in 1..Len(rules)
  /\ rules' = Toggled(rules, i)
  /\ UNCHANGED <<globalEnabled, ruleIds, requestCounter, pendingRequests, msgs, calls, dups, late, mutations>>

\* clearAllRules (service-worker.js 250-257)
ClearAllRules ==
  /\ rules' = <<>>
  /\ UNCHANGED <<globalEnabled, ruleIds, requestCounter, pendingRequests, msgs, calls, dups, late, mutations>>

\* A setGlobalEnabled that empties the rule store when it turns mocking off
SetGlobalEnabledClears(enabled) ==
  /\ globalEnabled' = enabled
  /\ rules' = IF enabled THEN rules ELSE <<>>
  /\ UNCHANGED <<ruleIds, requestCounter, pendingRequests, msgs, calls, dups, late, mutations>>

\* setGlobalEnabled (service-worker.js 201-208)
SetGlobalEnabled(enabled) ==
  /\ globalEnabled' = enabled
  /\ UNCHANGED <<rules, ruleIds, requestCounter, pendingRequests, msgs, calls, dups, late, mutations>>

\* ------------------------------- the mutation handlers, await by await
\* rules.findIndex(r => r.id === id): 0 when no rule has the id
IndexOfId(rs, id) ==
  IF \E i \in 1..Len(rs) : rs[i].id = id
  THEN CHOOSE i \in 1..Len(rs) : rs[i].id = id /\ \A j \in 1..(i - 1) : rs[j].id # id
  ELSE 0

NoData == [url |-> "", method |-> <<>>, response |-> R201]

\* The array a handler hands to chrome.storage.local.set, made from the array
\* it got from chrome.storage.local.get (service-worker.js 94-113, 129-139,
\* 155-161, 176-182); clearAllRules hands over an empty array (line 251)
Written(w) ==
  LET index == IndexOfId(w.read, w.id)
  IN CASE w.type = "ADD_RULE" ->
            Append(w.read, [id |-> w.id, enabled |-> TRUE, url |-> w.data.url,
                            method |-> w.data.method, response |-> w.data.response])
       [] w.type = "UPDATE_RULE" ->
            [w.read EXCEPT ![index] = [id |-> w.id, enabled |-> w.read[index].enabled,
                                       url |-> w.data.url, method |-> w.data.method,
                                       response |-> w.data.response]]
       [] w.type = "DELETE_RULE" -> SelectSeq(w.read, LAMBDA r : r.id # w.id)
       [] w.type = "CLEAR_ALL_RULES" -> <<>>
       [] OTHER -> Toggled(w.read, index)

\* The handler of w throws Rule not found (service-worker.js 129-132, 155-159,
\* 176-179): no rule of the array read has the id
NotFound(w) ==
  /\ w.type \in {"UPDATE_RULE", "DELETE_RULE", "TOGGLE_RULE"}
  /\ IndexOfId(w.read, w.id) = 0

\* An answer to a failed handler that also notifies the tabs
ErrorAnswerNotifies(w) == [w EXCEPT !.stage = "acked", !.ack = "error", !.notified = TRUE]

\* The listener's catch: sendResponse({error}) (service-worker.js 28-34). The
\* handler threw before its storage write and before notifyTabs.
ErrorAnswer(w) == [w EXCEPT !.stage = "acked", !.ack = "error"]

\* notifyTabs({type: 'RULES_UPDATED'}) and the handler's return, which the
\* listener passes to sendResponse (service-worker.js 115-119, 30)
SuccessAnswer(w) == [w EXCEPT !.stage = "acked", !.ack = "success", !.notified = TRUE]

\* A handler starts: it reads the stored rules and stops at the await of its
\* storage write, or throws when the id is not in the array read.
\* clearAllRules reads nothing. n is the handler's place in the order of
\* arrival.
MutationRead(n, type, id, data) ==
  /\ Cardinality(mutations) < MaxMutations
  /\ n = Cardinality(mutations) + 1
  /\ IF type = "ADD_RULE"
     THEN /\ ruleIds < MaxRules /\ id = GenerateId /\ data \in RuleData
          /\ ruleIds' = ruleIds + 1
     ELSE IF type = "CLEAR_ALL_RULES"
     THEN /\ id = 0 /\ data = NoData
          /\ ruleIds' = ruleIds
     ELSE /\ id \in 1..MaxRules
          /\ data \in (IF type = "UPDATE_RULE" THEN RuleData ELSE {NoData})
          /\ ruleIds' = ruleIds
  /\ LET w == [n |-> n, type |-> type, id |-> id, data |-> data,
               read |-> IF type = "CLEAR_ALL_RULES" THEN <<>> ELSE rules,
               stage |-> "set", ack |-> "none", notified |-> FALSE]
     IN mutations' = mutations \cup {IF NotFound(w) THEN ErrorAnswer(w) ELSE w}
  /\ UNCHANGED <<rules, globalEnabled, requestCounter, pendingRequests, msgs, calls, dups, late>>

\* The handler's chrome.storage.local.set: the stored array is replaced.
MutationWrite(w) ==
  /\ w \in mutations /\ w.stage = "set"
  /\ rules' = Written(w)
  /\ mutations' = (mutations \ {w}) \cup {[w EXCEPT !.stage = "written"]}
  /\ UNCHANGED <<globalEnabled, ruleIds, requestCounter, pendingRequests, msgs, calls, dups, late>>

\* The handler goes on after its storage write: it notifies the tabs and
\* returns, and the sender gets its answer.
MutationAck(w) ==
  /\ w \in mutations /\ w.stage = "written"
  /\ mutations' = (mutations \ {w}) \cup {SuccessAnswer(w)}
  /\ UNCHANGED <<rules, globalEnabled, ruleIds, requestCounter, pendingRequests, msgs, calls, dups, late>>

\* ------------------------------------------------------- response emulator
\* The null body statuses of the Fetch standard
NullBodyStatus == {101, 103, 204, 205, 304}

\* Header names as the Headers class stores them (lower case)
LowerName(n) == IF n \in {"Content-Type", "CONTENT-TYPE"} THEN "content-type" ELSE n

\* new Headers(headers || {})
NewHeaders(headers) == [i \in 1..Len(headers) |-> <<LowerName(headers[i][1]), headers[i][2]>>]

\* status || 200, statusText || 'OK', body || ''
StatusOr(status) == IF status = 0 THEN 200 ELSE status
StatusTextOr(statusText) == IF statusText = "" THEN "OK" ELSE statusText
BodyOr(body) == IF body = "" THEN "" ELSE body

\* new Response(body || '', responseInit) (injected.js 99-110): None when the
\* constructor throws (RangeError for a status outside 200..599, TypeError for a
\* null body status with a body, and '' is a body); a string body adds a
\* Content-Type when the headers have none.
NewResponse(r) ==
  LET status == StatusOr(r.status)
      hs == NewHeaders(r.headers)
      typed == \E i \in 1..Len(hs) : hs[i][1] = "content-type"
  IN IF status < 200 \/ status > 599 \/ status \in NullBodyStatus THEN None
     ELSE Some([status |-> status, statusText |-> StatusTextOr(r.statusText),
                headers |-> IF typed THEN hs
                            ELSE Append(hs, <<"content-type", "text/plain;charset=UTF-8">>),
                body |-> BodyOr(r.body)])

\* The properties simulateMockedXHR defines on the instance (injected.js 195-221)
MockedXhrProps(r) ==
  [status |-> StatusOr(r.status), statusText |-> StatusTextOr(r.statusText),
   headers |-> r.headers, body |-> BodyOr(r.body)]

\* headers[name] on the payload's headers object: the object's own property, or
\* what Object.prototype holds under that name, or undefined
ObjectPrototypeNames == {"constructor", "toString", "valueOf", "hasOwnProperty"}
PropertyRead(headers, name) ==
  LET own == {i \in 1..Len(headers) : headers[i][1] = name}
  IN IF own # {} THEN Some(headers[CHOOSE i \in own : TRUE][2])
     ELSE IF name \in ObjectPrototypeNames THEN Some("function")
     ELSE None

\* A value that counts as true in a condition
Truthy(x) == x # None /\ x[1] # ""

\* xhr.getResponseHeader of a mocked instance (injected.js 223-238); None is null
GetResponseHeader(headers, name) ==
  IF Truthy(PropertyRead(headers, name)) THEN PropertyRead(headers, name)
  ELSE LET lowerName == LowerName(name)
           hits == {i \in 1..Len(headers) : LowerName(headers[i][1]) = lowerName}
       IN IF hits = {} THEN None
          ELSE Some(headers[CHOOSE i \in hits : \A j \in hits : i <= j][2])

\* mockCheck.shouldMock && mockCheck.response (injected.js 96, 156)
ShouldEmulate(p) == OrElse(p.shouldMock, FALSE) /\ p.response # None

\* -------------------------------------------------------------- the calls
\* Handlers the caller has assigned to an XMLHttpRequest instance: "none", a
\* handler that returns ("ok") or a handler that throws ("throws").
HandlerKinds == {"none", "ok", "throws"}
Handlers == [onreadystatechange : HandlerKinds, onload : HandlerKinds, onloadend : HandlerKinds]
NoHandlers == [onreadystatechange |-> "none", onload |-> "none", onloadend |-> "none"]

NoCall ==
  [kind |-> "none", url |-> "", method |-> <<>>, requestId |-> 0, pc |-> "idle",
   resolvedBy |-> "none", decision |-> NoPayload, resolves |-> 0,
   origCalls |-> 0, emuRuns |-> 0, outcome |-> "none", native |-> "none",
   synthetic |-> None, opened |-> FALSE, handlers |-> NoHandlers,
   readyState |-> 0, log |-> <<>>, gFlag |-> None, gCount |-> 0, gResponse |-> None,
   args |-> <<>>, body |-> None, fwd |-> <<>>, returned |-> "none", header |-> None,
   host |-> "ok", escaped |-> "none", timer |-> "none"]

Init ==
  /\ rules = <<>>
  /\ globalEnabled = TRUE
  /\ ruleIds = 0
  /\ requestCounter = 0
  /\ pendingRequests = <<>>
  /\ msgs = {}
  /\ calls = [c \in CallIds |-> NoCall]
  /\ dups = 0
  /\ late = 0
  /\ mutations = {}

\* ------------------------------------------------------------ the shim
\* An id made from the counter as it stands, without counting on
GenerateRequestIdStale == IF requestCounter = 0 THEN requestCounter + 1 ELSE requestCounter

\* generateRequestId(): req_<Date.now()>_<++requestCounter>; the counter part
\* is what tells two ids of one page apart.
GenerateRequestId == requestCounter + 1

\* The rules of a store the claims call "enabled and matching": enabled, the
\* same url string, the same method up to letter case (compared letter by letter).
SameLetter(a, b) == a = b \/ UpperChar(a) = b \/ a = UpperChar(b)
SameMethodIgnoringCase(m1, m2) ==
  Len(m1) = Len(m2) /\ \A i \in 1..Len(m1) : SameLetter(m1[i], m2[i])
EnabledMatching(rs, url, method) ==
  SelectSeq(rs, LAMBDA r : r.enabled /\ r.url = url /\ SameMethodIgnoringCase(r.method, method))

\* A checkMock that asks only for a (url, method) no earlier call has a decision for
CheckMockCached(c, url, method) ==
  LET requestId == GenerateRequestId
      known == \E d \in CallIds : /\ calls[d].resolvedBy # "none"
                                  /\ calls[d].url = url /\ calls[d].method = method
  IN /\ requestCounter' = requestCounter + 1
     /\ pendingRequests' = (requestId :> c) @@ pendingRequests
     /\ msgs' = IF known THEN msgs
                ELSE msgs \cup {[requestId |-> requestId, url |-> url, method |-> method,
                                 stage |-> "posted", payload |-> NoPayload, copy |-> 0,
                                 gFlag |-> None, gCount |-> 0, gResponse |-> None,
                                 forwards |-> 0, replies |-> 0, echo |-> FALSE]}

\* checkMock(url, method) of the shim (injected.js 26-46): a new id, a timeout,
\* a pending entry and a CHECK_MOCK message
CheckMock(c, url, method) ==
  LET requestId == GenerateRequestId
  IN /\ requestCounter' = requestCounter + 1
     /\ pendingRequests' = (requestId :> c) @@ pendingRequests
     /\ msgs' = msgs \cup {[requestId |-> requestId, url |-> url, method |-> method,
                            stage |-> "posted", payload |-> NoPayload, copy |-> 0,
                            gFlag |-> None, gCount |-> 0, gResponse |-> None,
                                 forwards |-> 0, replies |-> 0, echo |-> FALSE]}

\* Calls are numbered in the order the page makes them.
NextCall(c) == calls[c].kind = "none" /\ (IF c = 1 THEN TRUE ELSE calls[c - 1].kind # "none")

\* The bodies a caller hands to send: none, or a string
Bodies == {None, Some("q=1")}

\* The invocations of the original primitives, with the arguments they receive:
\* originalOpen(method, url, ...), originalFetch.apply(this, arguments),
\* originalSend(body) (injected.js 148, 114, 168)
OriginalOpen(method, url) == [fn |-> "open", args |-> <<method, url>>]
OriginalFetch(arguments) == [fn |-> "fetch", args |-> arguments]
OriginalSend(body) == [fn |-> "send", args |-> <<body>>]

\* What the wrapped call hands back to the caller when it returns: window.fetch
\* and xhr.send are async functions, they return a promise at their first await.
FetchWrapperReturn == "promise"
SendWrapperReturn == "promise"

\* What the unmodified primitive hands back: fetch a promise, send nothing.
NativeReturn(kind) == IF kind = "fetch" THEN "promise" ELSE "undefined"

FetchInputs == [url : UrlInputs, method : {None, Some(mGet), Some(mPOST)}]

\* window.fetch up to its await (injected.js 74-94). input.url / String(input)
\* is in.url, input.method / init.method is in.method.
FetchCall(c, in) ==
  /\ NextCall(c)
  /\ LET method == OrElse(in.method, mGET)
         url == NormalizeUrl(in.url)[1]
     IN /\ CheckMock(c, url, ToUpperCase(method))
        /\ calls' = [calls EXCEPT ![c] = [NoCall EXCEPT !.kind = "fetch", !.url = url,
                       !.method = ToUpperCase(method), !.pc = "await", !.timer = "live",
                       !.requestId = GenerateRequestId,
                       !.args = <<in.url, in.method>>,
                       !.returned = FetchWrapperReturn]]
  /\ UNCHANGED <<rules, globalEnabled, ruleIds, dups, late, mutations>>

\* new XMLHttpRequest(), the handlers the caller assigns, and xhr.open
\* (injected.js 120-149). The original open throws for a url it cannot parse
\* and else sets readyState 1 and fires readystatechange.
XhrOpen(c, method, url, hs) ==
  /\ NextCall(c)
  /\ LET ok == UrlHref(url) # None
         seen == IF ok /\ hs.onreadystatechange # "none"
                 THEN << [h |-> "onreadystatechange", rs |-> 1, via |-> "open"] >>
                 ELSE <<>>
     IN calls' = [calls EXCEPT ![c] = [NoCall EXCEPT !.kind = "xhr",
                    !.url = NormalizeUrl(url)[1], !.method = ToUpperCase(method),
                    !.pc = "opened", !.opened = ok, !.handlers = hs,
                    !.readyState = IF ok THEN 1 ELSE 0, !.log = seen,
                    !.args = <<method, url>>,
                    !.fwd = <<OriginalOpen(method, url)>>]]
  /\ UNCHANGED <<rules, globalEnabled, ruleIds, requestCounter, pendingRequests, msgs, dups, late, mutations>>

\* A send that hands the body to the original send before it asks
XhrSendEager(c) ==
  /\ calls[c].kind = "xhr" /\ calls[c].pc = "opened"
  /\ CheckMock(c, calls[c].url, calls[c].method)
  /\ \E body \in Bodies :
       calls' = [calls EXCEPT ![c].pc = "await", ![c].timer = "live",
                              ![c].requestId = GenerateRequestId,
                              ![c].body = body, ![c].returned = SendWrapperReturn,
                              ![c].origCalls = @ + 1]
  /\ UNCHANGED <<rules, globalEnabled, ruleIds, dups, late, mutations>>

\* xhr.send up to its await (injected.js 152-154)
XhrSend(c) ==
  /\ calls[c].kind = "xhr" /\ calls[c].pc = "opened"
  /\ CheckMock(c, calls[c].url, calls[c].method)
  /\ \E body \in Bodies :
       calls' = [calls EXCEPT ![c].pc = "await", ![c].timer = "live",
                              ![c].requestId = GenerateRequestId,
                              ![c].body = body, ![c].returned = SendWrapperReturn]
  /\ UNCHANGED <<rules, globalEnabled, ruleIds, dups, late, mutations>>

\* new XMLHttpRequest().send() with no open: xhrInfo keeps 'GET' and ''
XhrSendUnopened(c) ==
  /\ NextCall(c)
  /\ CheckMock(c, "", mGET)
  /\ calls' = [calls EXCEPT ![c] = [NoCall EXCEPT !.kind = "xhr", !.method = mGET,
                 !.pc = "await", !.timer = "live", !.requestId = GenerateRequestId,
                 !.returned = SendWrapperReturn]]
  /\ UNCHANGED <<rules, globalEnabled, ruleIds, dups, late, mutations>>

\* How an exception thrown inside the wrapper reaches the caller: window.fetch
\* and xhr.send are async functions (injected.js 74, 152), so as a rejection.
FetchWrapperDelivery == "reject"
SendWrapperDelivery == "reject"

\* The rest of window.fetch once the decision p is there (injected.js 96-114).
\* fails: the original fetch rejects.
FetchResume(call, p, fails) ==
  IF ShouldEmulate(p)
  THEN LET resp == NewResponse(p.response[1])
       IN [call EXCEPT !.pc = "done", !.emuRuns = @ + 1, !.synthetic = resp,
             !.outcome = IF resp = None THEN "shim:" \o FetchWrapperDelivery ELSE "synthetic"]
  ELSE LET bad == fails \/ UrlHref(call.url) = None
       IN [call EXCEPT !.pc = "done", !.origCalls = @ + 1,
             !.fwd = Append(@, OriginalFetch(call.args)),
             !.outcome = IF bad THEN "orig:reject" ELSE "orig:result",
             !.native = IF bad THEN "orig:reject" ELSE "orig:result"]

\* The rest of xhr.send once the decision p is there (injected.js 156-168). The
\* original send throws InvalidStateError on an instance that is not opened.
SendResume(call, p) ==
  IF ShouldEmulate(p)
  THEN [call EXCEPT !.pc = "tick1", !.emuRuns = @ + 1,
          !.synthetic = Some(MockedXhrProps(p.response[1])), !.outcome = "synthetic"]
  ELSE [call EXCEPT !.pc = "done", !.origCalls = @ + 1,
          !.fwd = Append(@, OriginalSend(call.body)),
          !.outcome = IF call.opened THEN "orig:result" ELSE "orig:" \o SendWrapperDelivery,
          !.native = IF call.opened THEN "orig:result" ELSE "orig:throw"]

\* resolve(p): the awaiting call goes on
Resume(call, p, by, fails) ==
  LET got == [call EXCEPT !.resolvedBy = by, !.decision = p, !.resolves = @ + 1]
  IN IF call.kind = "fetch" THEN FetchResume(got, p, fails) ELSE SendResume(got, p)

\* A delete that leaves the entry in the map
MapDeleteKeeps(m, k) == m

\* Map.prototype.delete
MapDelete(m, k) == [x \in (DOMAIN m) \ {k} |-> m[x]]

\* The call whose checkMock set the timeout of query id, while that timeout is
\* live (setTimeout at injected.js 31, held in the entry at line 36)
TimerOf(id) ==
  LET live == {c \in CallIds : calls[c].requestId = id /\ calls[c].timer = "live"}
  IN IF live = {} THEN None ELSE Some(CHOOSE c \in live : TRUE)

\* A clearTimeout that leaves the timeout live
ClearTimeoutNot(timer) == timer

\* clearTimeout(pending.timeout) (injected.js 60)
ClearTimeout(timer) == IF timer = "live" THEN "cleared" ELSE timer

\* A timeout callback that removes the entry and does not resolve
TimeoutFireNoResolve(id, fails) ==
  /\ TimerOf(id) # None
  /\ pendingRequests' = MapDelete(pendingRequests, id)
  /\ calls' = [calls EXCEPT ![TimerOf(id)[1]].timer = "fired"]
  /\ UNCHANGED <<rules, globalEnabled, ruleIds, requestCounter, msgs, dups, late, mutations>>

\* The timeout callback of checkMock (injected.js 31-34), run for a timeout
\* that is live: the entry is deleted and resolve is called, which does
\* nothing for a promise that is resolved already.
TimeoutFire(id, fails) ==
  /\ TimerOf(id) # None
  /\ pendingRequests' = MapDelete(pendingRequests, id)
  /\ LET c == TimerOf(id)[1]
         then == IF calls[c].resolvedBy = "none"
                 THEN Resume(calls[c], ShouldNotMock, "timeout", fails)
                 ELSE calls[c]
     IN calls' = [calls EXCEPT ![c] = [then EXCEPT !.timer = "fired"]]
  /\ UNCHANGED <<rules, globalEnabled, ruleIds, requestCounter, msgs, dups, late, mutations>>

\* A lookup that takes the oldest pending entry, whatever the id
PendingForOldest(requestId) ==
  IF DOMAIN pendingRequests = {} THEN None
  ELSE Some(pendingRequests[CHOOSE k \in DOMAIN pendingRequests :
                              \A j \in DOMAIN pendingRequests : k <= j])

\* The entry a MOCK_RESPONSE resolves: pendingRequests.get(requestId)
PendingFor(requestId) ==
  IF requestId \in DOMAIN pendingRequests THEN Some(pendingRequests[requestId]) ELSE None

\* The window message a query is while it travels between shim and relay:
\* every listener of the window gets it.
WindowMessage(m) ==
  IF m.stage = "posted"
  THEN [source |-> "api-mocker-injected", type |-> "CHECK_MOCK", requestId |-> m.requestId]
  ELSE [source |-> "api-mocker-content", type |-> "MOCK_RESPONSE", requestId |-> m.requestId]

\* A relay that takes every window message for a query
RelayAcceptsAny(data) == TRUE

\* The filters of the two listeners (interceptor.js 21-26, injected.js 52-57)
RelayAccepts(data) == data.source = "api-mocker-injected" /\ data.type = "CHECK_MOCK"
ShimAccepts(data) ==
  data.source = "api-mocker-content" /\ data.type = "MOCK_RESPONSE" /\ data.requestId # 0

\* The shim's message listener for a MOCK_RESPONSE (injected.js 51-65)
ShimReceive(m, fails) ==
  /\ m \in msgs /\ m.stage = "reply" /\ ShimAccepts(WindowMessage(m))
  /\ msgs' = msgs \ {m}
  /\ LET pending == PendingFor(m.requestId)
     IN IF pending # None
        THEN /\ pendingRequests' = MapDelete(pendingRequests, m.requestId)
             /\ calls' = [calls EXCEPT ![pending[1]] =
                            [Resume(calls[pending[1]], m.payload, "reply", fails)
                               EXCEPT !.gFlag = m.gFlag, !.gCount = m.gCount,
                                      !.gResponse = m.gResponse,
                                      !.timer = ClearTimeout(@)]]
             /\ late' = late
        ELSE /\ late' = late + 1
             /\ UNCHANGED <<pendingRequests, calls>>
  /\ UNCHANGED <<rules, globalEnabled, ruleIds, requestCounter, dups, mutations>>

\* ----------------------------------------------------------- the relay
Move(m, m2) == msgs' = (msgs \ {m}) \cup {m2}

\* The relay's listener for a CHECK_MOCK (interceptor.js 20-32): the query goes
\* to the service worker by chrome.runtime.sendMessage
RelayForward(m) ==
  /\ m \in msgs /\ m.stage = "posted" /\ RelayAccepts(WindowMessage(m))
  /\ Move(m, [m EXCEPT !.stage = "forwarded", !.forwards = @ + 1, !.echo = FALSE])
  /\ UNCHANGED <<rules, globalEnabled, ruleIds, requestCounter, pendingRequests, calls, dups, late, mutations>>

\* A MOCK_RESPONSE that does not carry the query's requestId
MockResponseWithoutId(m, payload) ==
  [m EXCEPT !.stage = "reply", !.payload = payload, !.requestId = 0]

\* The MOCK_RESPONSE the relay posts (interceptor.js 35-40, 42-47)
MockResponse(m, payload) ==
  [m EXCEPT !.stage = "reply", !.payload = payload, !.replies = @ + 1, !.echo = FALSE]

\* sendMessage rejects (no service worker, or its port closes before it has
\* answered): the relay's catch (interceptor.js 41-48)
RelayCatch(m) ==
  /\ m \in msgs /\ m.stage \in {"posted", "forwarded", "flagRead"}
  /\ Move(m, MockResponse(m, RelayFailure))
  /\ UNCHANGED <<rules, globalEnabled, ruleIds, requestCounter, pendingRequests, calls, dups, late, mutations>>

\* sendMessage resolves with the service worker's answer: the relay posts it
\* (interceptor.js 34-40)
RelayReply(m) ==
  /\ m \in msgs /\ m.stage = "answered"
  /\ Move(m, MockResponse(m, m.payload))
  /\ UNCHANGED <<rules, globalEnabled, ruleIds, requestCounter, pendingRequests, calls, dups, late, mutations>>

\* A window message reaches the listener it is not meant for: a CHECK_MOCK the
\* shim's listener, a MOCK_RESPONSE the relay's. A listener whose filter lets
\* the message through handles it as its own kind.
OtherListener(m) ==
  /\ m \in msgs /\ m.stage \in {"posted", "reply"} /\ ~m.echo
  /\ IF m.stage = "reply"
     THEN /\ IF RelayAccepts(WindowMessage(m))
             THEN Move(m, [m EXCEPT !.stage = "forwarded", !.forwards = @ + 1])
             ELSE Move(m, [m EXCEPT !.echo = TRUE])
          /\ UNCHANGED <<pendingRequests, calls>>
     ELSE /\ Move(m, [m EXCEPT !.echo = TRUE])
          /\ IF ShimAccepts(WindowMessage(m)) /\ PendingFor(m.requestId) # None
             THEN /\ pendingRequests' = MapDelete(pendingRequests, m.requestId)
                  /\ calls' = [calls EXCEPT ![PendingFor(m.requestId)[1]] =
                                 [Resume(@, m.payload, "reply", FALSE)
                                    EXCEPT !.timer = ClearTimeout(@)]]
             ELSE UNCHANGED <<pendingRequests, calls>>
  /\ UNCHANGED <<rules, globalEnabled, ruleIds, requestCounter, dups, late, mutations>>

\* A MOCK_RESPONSE that is posted a second time (a second instance of the
\* content script relays the same answer)
DuplicateReply(m) ==
  /\ dups < MaxDup
  /\ m \in msgs /\ m.stage = "reply" /\ m.copy = 0
  /\ dups' = dups + 1
  /\ msgs' = msgs \cup {[m EXCEPT !.copy = 1]}
  /\ UNCHANGED <<rules, globalEnabled, ruleIds, requestCounter, pendingRequests, calls, late, mutations>>

\* ------------------------------------------- the authority's CHECK_MOCK
\* checkMock up to its second await (service-worker.js 214-220)
SwReadEnabled(m) ==
  /\ m \in msgs /\ m.stage = "forwarded"
  /\ Move(m, IF globalEnabled = FALSE
             THEN [m EXCEPT !.stage = "answered", !.payload = ShouldNotMock,
                            !.gFlag = Some(FALSE)]
             ELSE [m EXCEPT !.stage = "flagRead", !.gFlag = Some(TRUE)])
  /\ UNCHANGED <<rules, globalEnabled, ruleIds, requestCounter, pendingRequests, calls, dups, late, mutations>>

\* checkMock from its second await on (service-worker.js 220-245)
SwReadRules(m) ==
  /\ m \in msgs /\ m.stage = "flagRead"
  /\ Move(m, [m EXCEPT !.stage = "answered",
                       !.payload = CheckMockResult(rules, m.url, m.method),
                       !.gCount = Len(EnabledMatching(rules, m.url, m.method)),
                       !.gResponse =
                         IF EnabledMatching(rules, m.url, m.method) = <<>> THEN None
                         ELSE Some(EnabledMatching(rules, m.url, m.method)[1].response)])
  /\ UNCHANGED <<rules, globalEnabled, ruleIds, requestCounter, pendingRequests, calls, dups, late, mutations>>

\* handleMessage rejects (a storage read fails): the listener's catch answers
\* { error } (service-worker.js 28-38)
SwHandlerError(m) ==
  /\ m \in msgs /\ m.stage \in {"forwarded", "flagRead"}
  /\ Move(m, [m EXCEPT !.stage = "answered", !.payload = HandlerError])
  /\ UNCHANGED <<rules, globalEnabled, ruleIds, requestCounter, pendingRequests, calls, dups, late, mutations>>

\* ------------------------------------------- the emulator's state machine
Invoke(log, kind, name, rs, via) ==
  IF kind = "none" THEN log ELSE Append(log, [h |-> name, rs |-> rs, via |-> via])

\* A timer callback that installs readyState 3 at once, with the notifications
\* of the values it passes over, and schedules the last callback
XhrTickBatched(c, n) ==
  /\ n \in 1..3
  /\ calls[c].pc = "tick" \o ToString(n)
  /\ LET h == calls[c].handlers.onreadystatechange
         l1 == IF n <= 1 THEN Invoke(calls[c].log, h, "onreadystatechange", 1, "emulator")
               ELSE calls[c].log
         l2 == IF n <= 2 THEN Invoke(l1, h, "onreadystatechange", 2, "emulator") ELSE l1
     IN calls' = [calls EXCEPT ![c].readyState = 3,
                               ![c].log = Invoke(l2, h, "onreadystatechange", 3, "emulator"),
                               ![c].pc = IF h = "throws" THEN "aborted" ELSE "tick4",
                               ![c].escaped = IF h = "throws" THEN "handler" ELSE @]
  /\ UNCHANGED <<rules, globalEnabled, ruleIds, requestCounter, pendingRequests, msgs, dups, late, mutations>>

\* The first three timer callbacks of simulateMockedXHR (injected.js 241-254):
\* install readyState n, call onreadystatechange, schedule the next callback.
\* A handler that throws ends the callback before the next one is scheduled.
XhrTick(c, n) ==
  /\ n \in 1..3
  /\ calls[c].pc = "tick" \o ToString(n)
  /\ LET h == calls[c].handlers.onreadystatechange
     IN calls' = [calls EXCEPT ![c].readyState = n,
                               ![c].log = Invoke(@, h, "onreadystatechange", n, "emulator"),
                               ![c].pc = IF h = "throws" THEN "aborted"
                                         ELSE "tick" \o ToString(n + 1),
                               ![c].escaped = IF h = "throws" THEN "handler" ELSE @]
  /\ UNCHANGED <<rules, globalEnabled, ruleIds, requestCounter, pendingRequests, msgs, dups, late, mutations>>

\* The last timer callback (injected.js 256-278): readyState 4,
\* onreadystatechange, onload, onloadend, then the load and loadend events,
\* which the instance delivers to its onload and onloadend handlers.
XhrDone(c) ==
  /\ calls[c].pc = "tick4"
  /\ LET hs == calls[c].handlers
         l1 == Invoke(calls[c].log, hs.onreadystatechange, "onreadystatechange", 4, "emulator")
         l2 == Invoke(l1, hs.onload, "onload", 4, "emulator")
         l3 == Invoke(l2, hs.onloadend, "onloadend", 4, "emulator")
         l4 == Invoke(l3, hs.onload, "onload", 4, "dispatch")
         l5 == Invoke(l4, hs.onloadend, "onloadend", 4, "dispatch")
     IN calls' = [calls EXCEPT ![c].readyState = 4,
                    ![c].log = IF hs.onreadystatechange = "throws" THEN l1
                               ELSE IF hs.onload = "throws" THEN l2
                               ELSE IF hs.onloadend = "throws" THEN l3
                               ELSE l5,
                    ![c].pc = IF "throws" \in {hs.onreadystatechange, hs.onload, hs.onloadend}
                              THEN "aborted" ELSE "done",
                    ![c].escaped = IF "throws" \in {hs.onreadystatechange, hs.onload, hs.onloadend}
                                   THEN "handler" ELSE @]
  /\ UNCHANGED <<rules, globalEnabled, ruleIds, requestCounter, pendingRequests, msgs, dups, late, mutations>>

\* Hosts in which the events of the completion cannot be made or delivered:
\* new ProgressEvent(...) throws, or xhr.dispatchEvent(...) throws
FaultyHosts == {"noProgressEvent", "dispatchThrows"}

\* The last timer callback (injected.js 256-278) in such a host. The arguments
\* of xhr.onload(...) and xhr.onloadend(...) are constructed outside the try,
\* those of dispatchEvent inside it.
XhrDoneFaulty(c, host) ==
  /\ calls[c].pc = "tick4" /\ host \in FaultyHosts
  /\ LET hs == calls[c].handlers
         l1 == Invoke(calls[c].log, hs.onreadystatechange, "onreadystatechange", 4, "emulator")
         l2 == Invoke(l1, hs.onload, "onload", 4, "emulator")
         l3 == Invoke(l2, hs.onloadend, "onloadend", 4, "emulator")
         out == IF hs.onreadystatechange = "throws" THEN <<l1, "aborted", "handler">>
                ELSE IF host = "noProgressEvent"
                THEN IF hs.onload # "none" \/ hs.onloadend # "none"
                     THEN <<l1, "aborted", "event">>
                     ELSE <<l1, "done", "none">>
                ELSE IF hs.onload = "throws" THEN <<l2, "aborted", "handler">>
                ELSE IF hs.onloadend = "throws" THEN <<l3, "aborted", "handler">>
                ELSE <<l3, "done", "none">>
     IN calls' = [calls EXCEPT ![c].readyState = 4, ![c].host = host,
                    ![c].log = out[1], ![c].pc = out[2], ![c].escaped = out[3]]
  /\ UNCHANGED <<rules, globalEnabled, ruleIds, requestCounter, pendingRequests, msgs, dups, late, mutations>>

\* What the caller reads from xhr.status, xhr.statusText, xhr.response and
\* xhr.responseText. simulateMockedXHR defines the four getters when it is
\* called (injected.js 198-209), before it sets its first timer; an instance
\* it was not called for has the values of a request that got no response.
XhrRead(k) ==
  IF k.synthetic # None
  THEN [status |-> k.synthetic[1].status, statusText |-> k.synthetic[1].statusText,
        response |-> k.synthetic[1].body, responseText |-> k.synthetic[1].body]
  ELSE [status |-> 0, statusText |-> "", response |-> "", responseText |-> ""]

\* The names the caller looks response headers up by
LookupNames == {"content-type", "CONTENT-TYPE", "Content-Type", "X-None", "constructor"}

\* The caller calls xhr.getResponseHeader(name) on a mocked instance.
XhrGetResponseHeader(c, name) ==
  /\ calls[c].kind = "xhr" /\ calls[c].emuRuns = 1
  /\ calls' = [calls EXCEPT ![c].header =
                 Some([name |-> name,
                       value |-> GetResponseHeader(calls[c].synthetic[1].headers, name)])]
  /\ UNCHANGED <<rules, globalEnabled, ruleIds, requestCounter, pendingRequests, msgs, dups, late, mutations>>

\* A finished call leaves nothing behind in the page: its record is dropped.
Retired == [NoCall EXCEPT !.kind = "retired"]
Retire(c) ==
  /\ calls[c].pc \in {"done", "aborted"}
  /\ calls' = [calls EXCEPT ![c] = Retired]
  /\ UNCHANGED <<rules, globalEnabled, ruleIds, requestCounter, pendingRequests, msgs, dups, late, mutations>>

\* ------------------------------------------------------------------ Next
Admin ==
  \/ \E data \in RuleData : AddRule(data)
  \/ \E i \in 1..MaxRules, data \in RuleData : UpdateRule(i, data)
  \/ \E i \in 1..MaxRules : DeleteRule(i)
  \/ \E i \in 1..MaxRules : ToggleRule(i)
  \/ ClearAllRules
  \/ \E enabled \in BOOLEAN : SetGlobalEnabled(enabled)

\* The page calls fetch with one of the url arguments urls.
StartFetch(urls) ==
  \E c \in CallIds, in \in FetchInputs : in.url \in urls /\ FetchCall(c, in)

\* The page makes an XMLHttpRequest with one of the handler assignments hs.
StartXhr(hs, urls) ==
  \/ \E c \in CallIds, method \in {mGet, mPOST}, url \in urls, h \in hs :
       XhrOpen(c, method, url, h)
  \/ \E c \in CallIds : XhrSendUnopened(c)

\* The way of a query to the authority and back, and the end of a call.
QuerySteps ==
  \/ \E m \in msgs : RelayForward(m)
  \/ \E m \in msgs : RelayCatch(m)
  \/ \E m \in msgs : RelayReply(m)
  \/ \E m \in msgs : SwReadEnabled(m)
  \/ \E m \in msgs : SwReadRules(m)
  \/ \E m \in msgs : SwHandlerError(m)
  \/ \E m \in msgs, fails \in BOOLEAN : ShimReceive(m, fails)
  \/ \E id \in 1..MaxCalls, fails \in BOOLEAN : TimeoutFire(id, fails)
  \/ \E c \in CallIds : Retire(c)

\* The steps of an XMLHttpRequest after open.
XhrSteps ==
  \/ \E c \in CallIds : XhrSend(c)
  \/ \E c \in CallIds, n \in 1..3 : XhrTick(c, n)
  \/ \E c \in CallIds : XhrDone(c)

\* No call of the page is under way and no message is on its way.
Quiet == msgs = {} /\ \A c \in CallIds : calls[c].kind \in {"none", "retired"}

OkHandlers == [onreadystatechange |-> "ok", onload |-> "ok", onloadend |-> "ok"]

\* The rule store changes at any time; the page makes one call after the other.
Next ==
  \/ Admin
  \/ Quiet /\ StartFetch({"/b", "https://a/b?x=1"})
  \/ Quiet /\ StartXhr({OkHandlers}, {"/b", "https://a/b?x=1"})
  \/ QuerySteps
  \/ XhrSteps

Spec == Init /\ [][Next]_vars

\* A store with two rules for one url, as two ADD_RULE messages leave it.
TwoRules ==
  << [id |-> 1, enabled |-> TRUE, url |-> "https://a/b", method |-> mGET, response |-> R204],
     [id |-> 2, enabled |-> TRUE, url |-> "https://a/b", method |-> mPost, response |-> R201] >>

InitTwoRules ==
  /\ rules = TwoRules
  /\ globalEnabled = TRUE
  /\ ruleIds = 2
  /\ requestCounter = 0
  /\ pendingRequests = <<>>
  /\ msgs = {}
  /\ calls = [c \in CallIds |-> NoCall]
  /\ dups = 0
  /\ late = 0
  /\ mutations = {}

\* The page calls fetch at any time, also while other calls are under way, and
\* answers may be posted twice; the rule store stays as it is.
NextConcurrent ==
  \/ StartFetch({"/b", "https://a/b?x=1"})
  \/ QuerySteps
  \/ \E m \in msgs : DuplicateReply(m)

SpecConcurrent == InitTwoRules /\ [][NextConcurrent]_vars

\* The page makes one call after the other, with every assignment of handlers;
\* the rule store stays as it is.
NextSequential ==
  \/ Quiet /\ StartFetch(UrlInputs)
  \/ Quiet /\ StartXhr(Handlers, UrlInputs)
  \/ QuerySteps
  \/ XhrSteps
  \/ \E c \in CallIds, name \in LookupNames : XhrGetResponseHeader(c, name)
  \/ \E c \in CallIds, host \in FaultyHosts : XhrDoneFaulty(c, host)
  \/ \E m \in msgs : OtherListener(m)

SpecSequential == InitTwoRules /\ [][NextSequential]_vars

\* No query is on its way and no call of the page is under way; the calls the
\* page has made may still be looked at.
Settled == msgs = {} /\ \A c \in CallIds : calls[c].pc \in {"idle", "done", "aborted"}

\* A rule is added, removed or toggled and the flag is set at any time; the
\* page repeats one call, by fetch or by XMLHttpRequest, each time after the one
\* before has finished.
NextRepeat ==
  \/ AddRule([url |-> "https://a/b", method |-> mGET, response |-> R201])
  \/ \E i \in 1..MaxRules : DeleteRule(i)
  \/ \E i \in 1..MaxRules : ToggleRule(i)
  \/ \E enabled \in BOOLEAN : SetGlobalEnabled(enabled)
  \/ Settled /\ StartFetch({"/b"})
  \/ Settled /\ StartXhr({OkHandlers}, {"/b"})
  \/ QuerySteps
  \/ XhrSteps

SpecRepeat == Init /\ [][NextRepeat]_vars

\* The panel and the rules editor send mutations while others are being handled.
NextMutations ==
  \/ \E n \in 1..MaxMutations, id \in 0..MaxRules, data \in RuleData \cup {NoData},
        type \in {"ADD_RULE", "UPDATE_RULE", "DELETE_RULE", "TOGGLE_RULE",
                  "CLEAR_ALL_RULES"} :
          MutationRead(n, type, id, data)
  \/ \E w \in mutations : MutationWrite(w)
  \/ \E w \in mutations : MutationAck(w)

SpecMutations == Init /\ [][NextMutations]_vars

\* ============================================================ the claims
\* A call whose query has been resolved, by a reply or by its timeout
Resolved(k) == k.resolvedBy # "none"

\* The authority read the flag as enabled and found an enabled matching rule
\* for the call's query.
RuleApplied(k) == k.gFlag = Some(TRUE) /\ k.gCount > 0

\* C1: a fetch call or XHR send whose (url, method) has no enabled matching
\* rule when the authority reads the store, or whose query the authority answers
\* with the global flag read as false, invokes the original primitive exactly
\* once and never runs the emulator; before its query is resolved a call has
\* invoked neither.
C1_PassThrough ==
  \A c \in CallIds :
    LET k == calls[c]
    IN /\ k.pc = "await" => k.origCalls = 0 /\ k.emuRuns = 0
       /\ Resolved(k) /\ ~RuleApplied(k) => k.origCalls = 1 /\ k.emuRuns = 0

\* A call passed through with the global flag off while an enabled rule matches it.
C1_Witness ==
  \E c \in CallIds :
    /\ calls[c].pc = "done" /\ calls[c].resolvedBy = "reply"
    /\ calls[c].gFlag = Some(FALSE) /\ calls[c].origCalls = 1
    /\ EnabledMatching(rules, calls[c].url, calls[c].method) # <<>>

\* Two header lists are equal as header lists (names compare without case).
SameHeaders(h1, h2) == NewHeaders(h1) = NewHeaders(h2)

\* C2: a fetch call or XHR send whose (url, method) matches exactly one enabled
\* rule with the global flag enabled, and whose decision arrives before the
\* timeout, yields a synthetic response whose status, statusText, body and
\* headers equal that rule's stored response, and the original primitive is
\* never invoked for it.
C2_MockedAsStored ==
  \A c \in CallIds :
    LET k == calls[c]
    IN k.resolvedBy = "reply" /\ k.gFlag = Some(TRUE) /\ k.gCount = 1
       => /\ k.origCalls = 0
          /\ k.synthetic # None
          /\ k.synthetic[1].status = k.gResponse[1].status
          /\ k.synthetic[1].statusText = k.gResponse[1].statusText
          /\ k.synthetic[1].body = k.gResponse[1].body
          /\ SameHeaders(k.synthetic[1].headers, k.gResponse[1].headers)

QueryUrls == {"https://a/b", "https://a/b?x=1", Malformed, ""}
QueryMethods == {mGET, mGet, mPOST, mPost}

\* C3: CHECK_MOCK matches a rule if and only if the rule is enabled, its url is
\* the query's url string and its method is the query's method up to letter
\* case; the authority answers shouldMock:true exactly when the store it read
\* holds such a rule.
C3_ExactUrlAnyCaseMethod ==
  /\ \A i \in 1..Len(rules), url \in QueryUrls, method \in QueryMethods :
       RuleMatches(rules[i], url, method)
         <=> /\ rules[i].enabled
             /\ rules[i].url = url
             /\ SameMethodIgnoringCase(rules[i].method, method)
  /\ \A m \in msgs :
       m.stage \in {"answered", "reply"} /\ m.gFlag = Some(TRUE) /\ ~m.payload.error
         => (m.payload.shouldMock = Some(TRUE) <=> m.gCount > 0)

\* The authority answered shouldMock:false to a query whose url is a stored
\* enabled rule's url with a query string added, the method being the rule's
\* up to letter case.
C3_Witness ==
  \E m \in msgs, i \in 1..Len(rules) :
    /\ m.stage = "answered" /\ m.gFlag = Some(TRUE) /\ m.payload = ShouldNotMock
    /\ rules[i].enabled /\ m.url = rules[i].url \o "?x=1"
    /\ rules[i].method = mPost /\ m.method = mPOST

\* The page's timers fire: a timeout that stays pending runs its callback.
FairSequential ==
  SpecSequential /\ \A id \in 1..MaxCalls : WF_vars(\E fails \in BOOLEAN : TimeoutFire(id, fails))

\* Call c fell back: its timeout resolved it as shouldMock:false, its pending
\* entry is gone and the original primitive was invoked.
FellBack(c) ==
  /\ calls[c].resolvedBy = "timeout"
  /\ calls[c].decision = ShouldNotMock
  /\ calls[c].requestId \notin DOMAIN pendingRequests
  /\ calls[c].origCalls = 1 /\ calls[c].emuRuns = 0

\* C4: a call that awaits its decision does not wait forever: either a
\* MOCK_RESPONSE for its correlationId is delivered, or its timeout fires, its
\* pending entry is removed, the query resolves as shouldMock:false and the
\* original primitive is invoked.
C4_TimeoutFallsBack ==
  \A c \in CallIds :
    (calls[c].pc = "await") ~> (calls[c].resolvedBy = "reply" \/ FellBack(c))

\* A call fell back while its query was still on its way, never answered.
C4_Witness ==
  \E c \in CallIds :
    /\ FellBack(c)
    /\ \E m \in msgs : m.requestId = calls[c].requestId /\ m.stage = "forwarded"

\* The step in which the shim's listener takes a MOCK_RESPONSE whose
\* correlationId has no pending entry
LateReply(m) ==
  /\ m \in msgs /\ m.stage = "reply"
  /\ m.requestId \notin DOMAIN pendingRequests
  /\ msgs' = msgs \ {m}

\* C5: each query's resolve callback is invoked at most once, and a
\* MOCK_RESPONSE whose correlationId has no pending entry any more (a late or a
\* duplicate reply) changes no call and no pending entry.
C5_ResolvedOnce ==
  [][ /\ \A c \in CallIds : calls'[c].resolves <= 1
      /\ \A m \in msgs :
           LateReply(m) => calls' = calls /\ pendingRequests' = pendingRequests ]_vars

\* A duplicate reply was dropped after the first had resolved its call.
C5_Witness ==
  /\ late > 0 /\ dups > 0
  /\ \E c \in CallIds : calls[c].resolvedBy = "reply" /\ calls[c].resolves = 1

\* The step in which the shim's listener takes the MOCK_RESPONSE m
Delivery(m) == m \in msgs /\ m.stage = "reply" /\ msgs' = msgs \ {m}

\* C6: with several queries in flight, each reply resolves only the pending
\* entry whose correlationId it carries, and each call gets the decision
\* computed for its own (url, method).
C6_OwnDecision ==
  /\ [](\A c \in CallIds :
          calls[c].resolvedBy = "reply" /\ ~calls[c].decision.error
            => calls[c].decision = CheckMockResult(rules, calls[c].url, calls[c].method))
  /\ [][ \A m \in msgs, c \in CallIds :
           Delivery(m) /\ calls'[c] # calls[c] => calls[c].requestId = m.requestId ]_vars

\* The second call got its own decision (mock) while the first call, whose
\* decision is not to mock, still awaits its reply.
C6_Witness ==
  /\ MaxCalls >= 2
  /\ calls[1].pc = "await" /\ calls[2].pc = "done"
  /\ calls[2].resolvedBy = "reply" /\ calls[2].decision.shouldMock = Some(TRUE)
  /\ CheckMockResult(rules, calls[1].url, calls[1].method) = ShouldNotMock
  /\ \E m \in msgs : m.requestId = calls[1].requestId /\ m.stage = "reply"

\* The readyState values onreadystatechange has seen from send() on
RECURSIVE SeenBy(_)
SeenBy(log) ==
  IF log = <<>> THEN <<>>
  ELSE LET e == log[Len(log)]
           before == SeenBy(SubSeq(log, 1, Len(log) - 1))
       IN IF e.h = "onreadystatechange" /\ e.via = "emulator"
          THEN Append(before, e.rs) ELSE before

IsPrefix(s, t) == Len(s) <= Len(t) /\ s = SubSeq(t, 1, Len(s))

\* The emulation of call c has no timer callback left to run.
EmulationOver(k) == k.emuRuns = 1 /\ k.pc \in {"done", "aborted"}

\* C7: during a mocked XHR send the readyState values the registered
\* onreadystatechange handler sees from send() on are exactly 1, 2, 3, 4 in
\* that order, none repeated, skipped or reordered, and onload and onloadend
\* are invoked only with readyState 4 installed.
C7_ReadyStates ==
  \A c \in CallIds :
    LET k == calls[c]
    IN k.kind = "xhr" /\ k.emuRuns = 1 /\ k.handlers.onreadystatechange # "none"
       => /\ IsPrefix(SeenBy(k.log), <<1, 2, 3, 4>>)
          /\ EmulationOver(k) => SeenBy(k.log) = <<1, 2, 3, 4>>
          /\ \A i \in 1..Len(k.log) :
               k.log[i].h \in {"onload", "onloadend"}
                 => k.log[i].rs = 4 /\ k.readyState = 4

\* C8: when forwarding a query fails (sendMessage rejects, or the authority's
\* handler errors) the relay still replies for the query's correlationId, the
\* shim takes the reply as shouldMock:false, the original primitive is invoked
\* and no error of the relay or the authority reaches the caller.
C8_TransportFailure ==
  /\ \A id \in DOMAIN pendingRequests : \E m \in msgs : m.requestId = id
  /\ \A m \in msgs : m.payload.error => m.stage \in {"answered", "reply"}
  /\ \A c \in CallIds :
       LET k == calls[c]
       IN k.resolvedBy = "reply" /\ k.decision.error
          => /\ k.origCalls = 1 /\ k.emuRuns = 0
             /\ k.outcome \in {"orig:result", "orig:reject", "orig:throw"}

\* The relay's failure reply made a call pass through although an enabled rule
\* matches it.
C8_Witness ==
  \E c \in CallIds :
    /\ calls[c].resolvedBy = "reply" /\ calls[c].decision = RelayFailure
    /\ calls[c].origCalls = 1
    /\ EnabledMatching(rules, calls[c].url, calls[c].method) # <<>>

\* C9: the shim itself never throws and never rejects: what the caller sees is
\* the original primitive's own outcome or a synthetic response.
C9_ShimNeverThrows ==
  \A c \in CallIds :
    Resolved(calls[c]) => calls[c].outcome \in {"orig:result", "orig:reject", "orig:throw", "synthetic"}

\* C10: when a call is not mocked and the original primitive fails, the caller
\* gets the same error in the same way (thrown from the call, or as a rejected
\* promise) as from the unmodified primitive.
C10_SameDelivery ==
  \A c \in CallIds : calls[c].origCalls = 1 => calls[c].outcome = calls[c].native

\* C11: the original primitive is not invoked for a call before the call's
\* query is resolved by a reply or by its timeout: while the call's pending
\* entry exists nothing of the call has reached the network, and the step that
\* invokes the original primitive is the step that resolves the query.
C11_AskBeforeNetwork ==
  /\ [](\A c \in CallIds :
          /\ calls[c].requestId \in DOMAIN pendingRequests => calls[c].origCalls = 0
          /\ calls[c].origCalls > 0 => Resolved(calls[c]))
  /\ [][\A c \in CallIds :
          calls'[c].origCalls > calls[c].origCalls
            => /\ calls[c].requestId \in DOMAIN pendingRequests
               /\ calls[c].requestId \notin DOMAIN pendingRequests'
               /\ ~Resolved(calls[c]) /\ Resolved(calls'[c])]_vars

\* An XHR send went to the network after the reply for its query had arrived.
C11_Witness ==
  \E c \in CallIds :
    /\ calls[c].kind = "xhr" /\ calls[c].resolvedBy = "reply"
    /\ calls[c].origCalls = 1
    /\ calls[c].requestId \notin DOMAIN pendingRequests

\* The decision the store gives a query at this moment
DecisionNow(url, method) ==
  LET found == EnabledMatching(rules, url, method)
  IN IF found = <<>> THEN ShouldNotMock
     ELSE [shouldMock |-> Some(TRUE), response |-> Some(found[1].response),
           error |-> FALSE, ruleId |-> found[1].id]

\* C12: decisions are not cached. Every fetch call and every XHR send posts a
\* query of its own under a new id; the authority answers each query from the
\* flag and the rules as they are stored when it reads them for that query; and
\* the call's outcome (emulated or passed through) is the one of that answer,
\* whatever an earlier call with the same (url, method) was told.
C12_NoCaching ==
  /\ [][\A c \in CallIds :
          calls[c].pc # "await" /\ calls'[c].pc = "await"
            => /\ requestCounter' = requestCounter + 1
               /\ calls'[c].requestId = requestCounter'
               /\ \E m \in msgs' \ msgs :
                    /\ m.requestId = calls'[c].requestId /\ m.stage = "posted"
                    /\ m.url = calls'[c].url /\ m.method = calls'[c].method]_vars
  /\ [][\A m \in msgs, m2 \in msgs' :
          /\ m.requestId = m2.requestId /\ m.stage \in {"forwarded", "flagRead"}
          /\ m2.stage = "answered" /\ ~m2.payload.error
          => IF m.stage = "forwarded"
             THEN globalEnabled = FALSE /\ m2.payload = ShouldNotMock
             ELSE m2.payload = DecisionNow(m.url, m.method)]_vars
  /\ [](\A c \in CallIds :
          LET k == calls[c]
          IN k.resolvedBy = "reply" /\ ~k.decision.error
             => /\ k.emuRuns = (IF RuleApplied(k) THEN 1 ELSE 0)
                /\ k.origCalls = (IF RuleApplied(k) THEN 0 ELSE 1))

\* Two calls with the same (url, method): the first was emulated and the
\* second, made after a change of the store, passed through.
C12_Witness ==
  \E c, d \in CallIds :
    /\ c < d
    /\ calls[c].resolvedBy = "reply" /\ calls[d].resolvedBy = "reply"
    /\ calls[c].kind = calls[d].kind
    /\ calls[c].url = calls[d].url /\ calls[c].method = calls[d].method
    /\ calls[c].emuRuns = 1 /\ calls[c].origCalls = 0
    /\ calls[d].emuRuns = 0 /\ calls[d].origCalls = 1
    /\ ~calls[d].decision.error

\* The invocations of the original primitive fn among those a call has made
Forwarded(k, fn) == SelectSeq(k.fwd, LAMBDA e : e.fn = fn)

\* C13: on the path that is not mocked the original fetch receives the
\* argument list the caller passed and the original send the caller's body,
\* every open call reaches the original open exactly once with the caller's
\* method and url, and what the caller gets back from the wrapped call is what
\* the original primitive gives back.
C13_ForwardsUnchanged ==
  \A c \in CallIds :
    LET k == calls[c]
    IN /\ k.kind = "fetch" /\ k.origCalls = 1
            => /\ Forwarded(k, "fetch") = <<OriginalFetch(k.args)>>
               /\ k.returned = NativeReturn("fetch")
       /\ k.kind = "xhr" /\ k.args # <<>>
            => Forwarded(k, "open") = <<OriginalOpen(k.args[1], k.args[2])>>
       /\ k.kind = "xhr" /\ k.origCalls = 1
            => /\ Forwarded(k, "send") = <<OriginalSend(k.body)>>
               /\ k.returned = NativeReturn("xhr")

\* The positions, in stored order, of the enabled rules that match a query
MatchingAt(url, method) ==
  {i \in 1..Len(rules) : /\ rules[i].enabled /\ rules[i].url = url
                         /\ SameMethodIgnoringCase(rules[i].method, method)}

\* Message m is answered in this step by the authority's checkMock, as m2.
AnsweredAs(m, m2) ==
  /\ m \in msgs /\ m2 \in msgs' /\ m.requestId = m2.requestId
  /\ m.stage \in {"forwarded", "flagRead"}
  /\ m2.stage = "answered" /\ ~m2.payload.error

\* C14: CHECK_MOCK answers shouldMock:false when it reads the global flag as
\* false; with the flag read as enabled it answers shouldMock:true with the
\* response and id of the first rule, in stored order, that is enabled and
\* matches the query, and shouldMock:false when the store holds no such rule.
C14_FirstEnabledMatch ==
  [][\A m \in msgs, m2 \in msgs' :
       AnsweredAs(m, m2)
         => IF m.stage = "forwarded"
            THEN globalEnabled = FALSE /\ m2.payload = ShouldNotMock
            ELSE LET at == MatchingAt(m.url, m.method)
                 IN IF at = {} THEN m2.payload = ShouldNotMock
                    ELSE LET first == CHOOSE i \in at : \A j \in at : i <= j
                         IN /\ m2.payload.shouldMock = Some(TRUE)
                            /\ m2.payload.response = Some(rules[first].response)
                            /\ m2.payload.ruleId = rules[first].id]_vars

\* The authority answered from the first of two enabled rules that match the
\* query and hold different responses.
C14_Witness ==
  \E m \in msgs :
    /\ m.stage = "answered" /\ m.payload.shouldMock = Some(TRUE)
    /\ Cardinality(MatchingAt(m.url, m.method)) = 2
    /\ Len(rules) = 2 /\ rules[1].response # rules[2].response
    /\ m.payload.response = Some(rules[1].response)

\* C15: SET_GLOBAL_ENABLED changes the global flag and nothing else: the rule
\* store, and with it the decision the store gives every query, is the same
\* after the step as before it, so that a flag set back to true brings back
\* the decisions of before; and a call whose query is answered with the flag
\* read as false passes through to the original primitive whatever rules exist.
C15_FlagOnly ==
  /\ [][globalEnabled' # globalEnabled
          => /\ rules' = rules /\ ruleIds' = ruleIds
             /\ \A url \in QueryUrls, method \in QueryMethods :
                  (DecisionNow(url, method))' = DecisionNow(url, method)
             /\ UNCHANGED <<requestCounter, pendingRequests, msgs, calls>>]_vars
  /\ [](\A c \in CallIds :
          calls[c].resolvedBy = "reply" /\ calls[c].gFlag = Some(FALSE)
            => /\ calls[c].decision = ShouldNotMock
               /\ calls[c].origCalls = 1 /\ calls[c].emuRuns = 0)

\* A call passed through with the flag off and the same call, made after the
\* flag was set back to true, was emulated from the rule that was stored all along.
C15_Witness ==
  \E c, d \in CallIds :
    /\ c < d /\ calls[c].url = calls[d].url /\ calls[c].method = calls[d].method
    /\ calls[c].resolvedBy = "reply" /\ calls[c].gFlag = Some(FALSE)
    /\ calls[c].origCalls = 1
    /\ calls[d].resolvedBy = "reply" /\ calls[d].gFlag = Some(TRUE)
    /\ calls[d].emuRuns = 1
    /\ globalEnabled /\ Len(rules) = 1 /\ calls[d].decision.ruleId = rules[1].id

\* The rule set rs with the enabled flag of the rule at position i flipped and
\* nothing else changed.
OnlyFlipped(rs, rs2, i) ==
  /\ Len(rs2) = Len(rs)
  /\ rs2[i].enabled = ~rs[i].enabled
  /\ \A j \in 1..Len(rs) :
       /\ rs2[j].id = rs[j].id /\ rs2[j].url = rs[j].url
       /\ rs2[j].method = rs[j].method /\ rs2[j].response = rs[j].response
       /\ j # i => rs2[j].enabled = rs[j].enabled

\* C16: TOGGLE_RULE flips the enabled flag of the rule with the given id and
\* changes nothing else in the store, neither another rule nor another field
\* nor the global flag, whether the handler runs alone or while other mutation
\* handlers run; toggling the same rule twice gives back the rule set; and a
\* rule that is disabled when the authority reads the store supplies no mock
\* response.
C16_ToggleOneRule ==
  /\ [][\A i \in 1..Len(rules) :
          ToggleRule(i) => OnlyFlipped(rules, rules', i) /\ globalEnabled' = globalEnabled]_vars
  /\ [][\A w \in mutations :
          w.type = "TOGGLE_RULE" /\ MutationWrite(w)
            => /\ IndexOfId(rules, w.id) # 0
               /\ OnlyFlipped(rules, rules', IndexOfId(rules, w.id))
               /\ globalEnabled' = globalEnabled]_vars
  /\ [](\A i \in 1..Len(rules) : Toggled(Toggled(rules, i), i) = rules)
  /\ [][\A m \in msgs, m2 \in msgs' :
          AnsweredAs(m, m2) /\ m2.payload.shouldMock = Some(TRUE)
            => \E i \in 1..Len(rules) :
                 rules[i].id = m2.payload.ruleId /\ rules[i].enabled]_vars

\* C17: on a mocked XHR instance getResponseHeader(name) returns the value of
\* the payload header whose name is name up to letter case, and null when the
\* payload holds no header of that name.
C17_HeaderLookup ==
  \A c \in CallIds :
    calls[c].header # None
      => LET name == calls[c].header[1].name
             got == calls[c].header[1].value
             hs == calls[c].decision.response[1].headers
             named == {i \in 1..Len(hs) : LowerName(hs[i][1]) = LowerName(name)}
         IN IF named = {} THEN got = None
            ELSE \E i \in named : got = Some(hs[i][2])

\* The deliveries of load and loadend to the handlers of a call, in order
Completion(k) == SelectSeq(k.log, LAMBDA e : e.h \in {"onload", "onloadend"})

\* What the handlers hs are to receive once DONE is reached: onload, then
\* onloadend, then the load event, then the loadend event.
LoadThenLoadend(hs) ==
  Invoke(Invoke(Invoke(Invoke(<<>>, hs.onload, "onload", 4, "emulator"),
                       hs.onloadend, "onloadend", 4, "emulator"),
                hs.onload, "onload", 4, "dispatch"),
         hs.onloadend, "onloadend", 4, "dispatch")

\* C18: once a mocked XHR has reached DONE its onload handler is invoked and
\* then its onloadend handler, and the load and the loadend event are
\* dispatched in that order; at no time has a loadend been delivered with no
\* load before it.
C18_LoadBeforeLoadend ==
  \A c \in CallIds :
    LET k == calls[c]
    IN k.kind = "xhr" /\ k.emuRuns = 1 /\ k.host = "ok"
       => /\ IsPrefix(Completion(k), LoadThenLoadend(k.handlers))
          /\ k.readyState = 4 /\ EmulationOver(k)
               => Completion(k) = LoadThenLoadend(k.handlers)

\* C19: when the load and loadend events cannot be constructed or dispatched
\* in the host, no error of that escapes the emulator and the instance still
\* reaches readyState 4 with status, statusText and body set, whichever of
\* onload and onloadend are registered.
C19_DispatchFailureSwallowed ==
  \A c \in CallIds :
    LET k == calls[c]
    IN k.kind = "xhr" /\ k.emuRuns = 1 /\ k.host \in FaultyHosts
       => /\ k.escaped # "event"
          /\ k.readyState = 4
          /\ k.synthetic = Some(MockedXhrProps(k.decision.response[1]))

\* A decision that does not say shouldMock:true
SaysNoMock(p) == p.shouldMock # Some(TRUE)

\* C20: every decision that reaches the shim without shouldMock:true, be it the
\* authority's answer, the relay's failure reply or the timeout's, carries no
\* response; the shim runs the emulator exactly for the decisions that say
\* shouldMock:true and carry a response, and invokes the original primitive for
\* all others.
C20_NoMockNoResponse ==
  /\ \A m \in msgs :
       m.stage \in {"answered", "reply"} /\ SaysNoMock(m.payload)
         => m.payload.response = None
  /\ \A c \in CallIds :
       LET k == calls[c]
           p == k.decision
       IN Resolved(k)
          => /\ SaysNoMock(p) => p.response = None
             /\ IF p.shouldMock = Some(TRUE) /\ p.response # None
                THEN k.emuRuns = 1 /\ k.origCalls = 0
                ELSE k.emuRuns = 0 /\ k.origCalls = 1

\* The authority's handler failed: its answer { error } says nothing of
\* shouldMock and the call went to the original primitive.
C20_Witness ==
  \E c \in CallIds :
    /\ calls[c].resolvedBy = "reply" /\ calls[c].decision = HandlerError
    /\ calls[c].emuRuns = 0 /\ calls[c].origCalls = 1

\* C21: for every CHECK_MOCK the shim posts the relay forwards one query to the
\* authority and posts one MOCK_RESPONSE, which carries the query's id; the
\* relay does not answer a MOCK_RESPONSE and the shim does not take a
\* CHECK_MOCK for a reply, so that no message is handled a second time.
C21_OneReplyNoLoop ==
  /\ [](\A m \in msgs :
          /\ m.forwards <= 1 /\ m.replies <= 1
          /\ m.stage = "posted" => m.forwards = 0 /\ m.replies = 0
          /\ m.stage \in {"forwarded", "flagRead", "answered"}
               => m.forwards = 1 /\ m.replies = 0
          /\ m.stage = "reply" => m.replies = 1
          /\ m.requestId \in 1..requestCounter
          /\ \A c \in CallIds :
               calls[c].requestId = m.requestId
                 => m.url = calls[c].url /\ m.method = calls[c].method)
  /\ [][\A m \in msgs :
          OtherListener(m)
            => /\ msgs' = (msgs \ {m}) \cup {[m EXCEPT !.echo = TRUE]}
               /\ UNCHANGED <<pendingRequests, calls>>]_vars

\* The relay's listener has seen the one MOCK_RESPONSE it posted for a query
\* and has left it alone.
C21_Witness ==
  \E m \in msgs :
    /\ m.stage = "reply" /\ m.echo
    /\ m.forwards = 1 /\ m.replies = 1
    /\ m.requestId \in DOMAIN pendingRequests

\* C22: every query of one page gets an id no other query of the page has: two
\* calls never hold the same id, the registry never holds two queries under
\* one id, and an insertion adds a new key and leaves every entry in place.
C22_UniqueIds ==
  /\ [](\A c, d \in CallIds :
          c # d /\ calls[c].requestId # 0 /\ calls[d].requestId # 0
            => calls[c].requestId # calls[d].requestId)
  /\ [](\A id \in DOMAIN pendingRequests :
          id \in 1..requestCounter /\ calls[pendingRequests[id]].requestId = id)
  /\ [][\A id \in DOMAIN pendingRequests' :
          id \notin DOMAIN pendingRequests
            => /\ id = requestCounter' /\ requestCounter' = requestCounter + 1
               /\ \A old \in DOMAIN pendingRequests :
                    old \in DOMAIN pendingRequests'
                    /\ pendingRequests'[old] = pendingRequests[old]]_vars

\* Two queries are pending at one time, under two ids.
C22_Witness ==
  \E c, d \in CallIds :
    /\ c # d /\ calls[c].pc = "await" /\ calls[d].pc = "await"
    /\ calls[c].requestId \in DOMAIN pendingRequests
    /\ calls[d].requestId \in DOMAIN pendingRequests
    /\ Cardinality(DOMAIN pendingRequests) = 2

\* The queries issued by the calls of the page and not yet resolved
Outstanding ==
  {calls[c].requestId : c \in {d \in CallIds : calls[d].requestId # 0
                                              /\ calls[d].resolvedBy = "none"}}

\* C23: in every reachable state the pending registry holds exactly the
\* queries that have been issued and not yet resolved, each with a live
\* timeout; a reply cancels the timeout of the entry it resolves, and no later
\* step fires the timeout of a call that a reply resolved; when no issued query
\* is unresolved the registry is empty.
C23_RegistryLifecycle ==
  /\ [](DOMAIN pendingRequests = Outstanding)
  /\ [](\A id \in DOMAIN pendingRequests : calls[pendingRequests[id]].timer = "live")
  /\ [](\A c \in CallIds : calls[c].resolvedBy = "reply" => calls[c].timer = "cleared")
  /\ [][\A c \in CallIds :
          calls[c].resolvedBy = "reply" => calls'[c].timer # "fired"]_vars
  /\ [](Outstanding = {} => pendingRequests = <<>>)

\* Two queries were issued; a reply resolved one and cancelled its timeout, the
\* timeout of the other fired, and the registry is empty again.
C23_Witness ==
  /\ pendingRequests = <<>>
  /\ \E c, d \in CallIds :
       /\ calls[c].resolvedBy = "reply" /\ calls[c].timer = "cleared"
       /\ calls[d].resolvedBy = "timeout" /\ calls[d].timer = "fired"

\* C24: during an emulation every change of readyState is one transition made
\* by one timer callback: a step that changes the readyState of a mocked
\* instance raises it by one and notifies at most once, so the instance is
\* left with readyState 2 and then with readyState 3, for the page's code that
\* runs between the callbacks to read, before it has readyState 4.
C24_OwnTick ==
  [][\A c \in CallIds :
       LET k == calls[c]
           k2 == calls'[c]
       IN k2.kind = "xhr" /\ k2.emuRuns = 1 /\ k2.readyState # k.readyState
            => /\ k2.readyState = k.readyState + 1
               /\ Len(SeenBy(k2.log)) <= Len(SeenBy(k.log)) + 1
               /\ k2.readyState = 4 => k.readyState = 3 /\ k.pc = "tick4"
               /\ k2.readyState = 3 => k.readyState = 2 /\ k.pc = "tick3"]_vars

\* A mocked instance stands at readyState 3 between two timer callbacks, after
\* its handler was notified of 1, 2 and 3, one callback each.
C24_Witness ==
  \E c \in CallIds :
    /\ calls[c].emuRuns = 1 /\ calls[c].readyState = 3 /\ calls[c].pc = "tick4"
    /\ SeenBy(calls[c].log) = <<1, 2, 3>>

\* C25: while a mocked instance has readyState 1, 2 or 3 its status and
\* statusText do not yet read as the payload's; with readyState 4 its status,
\* statusText, response and responseText read as the payload's.
C25_ShownAtDone ==
  \A c \in CallIds :
    LET k == calls[c]
        shown == MockedXhrProps(k.decision.response[1])
    IN k.kind = "xhr" /\ k.emuRuns = 1
       => /\ k.readyState \in 1..3
               => /\ XhrRead(k).status # shown.status
                  /\ XhrRead(k).statusText # shown.statusText
          /\ k.readyState = 4
               => XhrRead(k) = [status |-> shown.status, statusText |-> shown.statusText,
                                response |-> shown.body, responseText |-> shown.body]

\* C26: from open() through a mocked send() to the end of the emulation, an
\* onreadystatechange handler assigned before open() is not notified twice
\* with the same readyState value installed.
C26_NoRepeatedNotification ==
  \A c \in CallIds :
    LET k == calls[c]
    IN k.kind = "xhr" /\ k.emuRuns = 1
       => \A i, j \in 1..Len(k.log) :
            /\ i # j
            /\ k.log[i].h = "onreadystatechange" /\ k.log[j].h = "onreadystatechange"
            => k.log[i].rs # k.log[j].rs

\* The number of times the handler named h was invoked according to log
Invocations(log, h) == Cardinality({i \in 1..Len(log) : log[i].h = h})

\* C27: for one mocked XHR send the onload handler the caller assigned is
\* invoked exactly once and the onloadend handler exactly once: never more
\* than once, and once when the emulation has run to its end.
C27_LoadOnce ==
  \A c \in CallIds :
    LET k == calls[c]
    IN k.kind = "xhr" /\ k.emuRuns = 1
       => \A h \in {"onload", "onloadend"} :
            /\ Invocations(k.log, h) <= 1
            /\ k.pc = "done" /\ k.handlers[h] # "none" => Invocations(k.log, h) = 1

\* The page's timers fire: the timeout of a query and every timer callback
\* that simulateMockedXHR has scheduled run when they are due.
FairTimers ==
  /\ FairSequential
  /\ \A c \in CallIds :
       /\ WF_vars(\E n \in 1..3 : XhrTick(c, n))
       /\ WF_vars(XhrDone(c) \/ \E host \in FaultyHosts : XhrDoneFaulty(c, host))

\* The emulation of call k has installed readyState 4 and, where the host can
\* make and deliver the events, has called the onload and onloadend handlers
\* the caller assigned.
Completed(k) ==
  /\ k.readyState = 4
  /\ k.host = "ok" => \A h \in {"onload", "onloadend"} :
                        k.handlers[h] # "none" => Invocations(k.log, h) >= 1

\* C28: every mocked XHR send eventually reaches readyState 4 and delivers
\* load and loadend, whatever the caller's handlers do, a handler that throws
\* included.
C28_EmulationCompletes ==
  \A c \in CallIds :
    (calls[c].kind = "xhr" /\ calls[c].emuRuns = 1 /\ calls[c].pc = "tick1")
      ~> Completed(calls[c])

\* The same for callers whose handlers all return
C28_Aux_ReturningHandlers ==
  \A c \in CallIds :
    (/\ calls[c].kind = "xhr" /\ calls[c].emuRuns = 1 /\ calls[c].pc = "tick1"
     /\ "throws" \notin {calls[c].handlers.onreadystatechange, calls[c].handlers.onload,
                         calls[c].handlers.onloadend})
      ~> Completed(calls[c])

\* Every mutation request the service worker got has been answered.
AllAnswered == \A w \in mutations : w.stage = "acked"

\* The requests of one type for rule id that were answered with success
Acked(type, id) == {w \in mutations : w.type = type /\ w.id = id /\ w.ack = "success"}

\* C29: however the handlers of rule mutations interleave, once every request
\* is answered the stored rules show every acknowledged operation: a rule whose
\* ADD was acknowledged is stored unless a DELETE of it or a CLEAR_ALL was
\* acknowledged, a rule whose DELETE was acknowledged is not stored, and a
\* stored rule is enabled exactly when an even number of TOGGLEs of it were
\* acknowledged.
C29_NoLostUpdate ==
  AllAnswered =>
    \A id \in 1..MaxRules :
      LET index == IndexOfId(rules, id)
      IN /\ ( /\ Acked("ADD_RULE", id) # {} /\ Acked("DELETE_RULE", id) = {}
              /\ Acked("CLEAR_ALL_RULES", 0) = {} ) => index # 0
         /\ Acked("DELETE_RULE", id) # {} => index = 0
         /\ index # 0 => (rules[index].enabled
                            <=> Cardinality(Acked("TOGGLE_RULE", id)) % 2 = 0)

\* The requests that arrive in the step
Arrived == {w \in mutations' : \A v \in mutations : v.n # w.n}

\* C30: an UPDATE_RULE, DELETE_RULE or TOGGLE_RULE for an id that is not stored
\* is answered with an error in a step that leaves the rules and the global
\* flag as they are, and its handler never writes and never sends
\* RULES_UPDATED; a mutation that succeeds sends RULES_UPDATED only in a step
\* that follows its completed storage write.
C30_NotFoundAndOrder ==
  /\ [][\A w \in Arrived :
          w.type \in {"UPDATE_RULE", "DELETE_RULE", "TOGGLE_RULE"} /\ IndexOfId(rules, w.id) = 0
            => /\ w.ack = "error" /\ w.stage = "acked" /\ ~w.notified
               /\ rules' = rules /\ globalEnabled' = globalEnabled]_vars
  /\ [](\A w \in mutations : w.ack = "error" => ~w.notified /\ w.stage = "acked")
  /\ [][\A w \in mutations : w.ack = "error" => w \in mutations']_vars
  /\ [][\A w \in mutations' :
          w.notified => \E v \in mutations :
                          v.n = w.n /\ (v.notified \/ v.stage = "written")]_vars
  /\ [][\A w \in mutations :
          MutationWrite(w) => ~w.notified /\ \A v \in mutations' : v.n = w.n => ~v.notified]_vars

\* A TOGGLE_RULE for an id that is not stored was answered with an error and
\* without a notification, and a mutation that succeeded has notified the tabs.
C30_Witness ==
  \E w, v \in mutations :
    /\ w.type = "TOGGLE_RULE" /\ w.ack = "error" /\ ~w.notified
    /\ IndexOfId(w.read, w.id) = 0
    /\ v.ack = "success" /\ v.notified
====
